---------------------------- MODULE Spec2Model ----------------------------
(***************************************************************************)
(* A model of libmonero's key module in its two revisions:                 *)
(*   old: src/src/keys.rs        (generate1626seed, checked decoder)       *)
(*   new: src/src/keys/keys.rs   (original / mymonero seeds)               *)
(* Mnemonic words are sequences of ASCII byte values, hex strings are      *)
(* sequences of characters, and 32-bit and wider integers are kept as      *)
(* 16-bit limbs <<hi, lo>> so that no digit of the packed triplet is lost.  *)
(***************************************************************************)
EXTENDS Integers, Sequences, FiniteSets, TLC

(***************************************************************************)
(* Bounds of the model.                                                    *)
(***************************************************************************)
\* Longest mnemonic a caller types word by word.
MaxTyped == 4
\* Random draws take the NLow lowest and the NHigh highest word indices.
NLow == 2
NHigh == 1
\* The number of codewords whose coefficients are substituted.
NGf == 2

(***************************************************************************)
(* Program constants.                                                      *)
(***************************************************************************)
\* WordsetOriginal.words: [&str; 1626]
L == 1626
\* for _ in 0..24 (generate_original_seed)
OriginalDraws == 24
\* for _ in 0..12 (generate_mymonero_seed)
MyMoneroDraws == 12
\* if x < 1024 (gf_elem_mul2): half the size of the field GF(2048)
GfHalf == 1024
\* coeff: &[u16; 16] (gf_poly_eval)
NumCoeff == 16

(***************************************************************************)
(* The wordset registry (crate::mnemonics, not part of the sources given). *)
(* Each wordset has 1626 distinct words whose first prefix_len characters  *)
(* are distinct too.  One word is shared by both wordsets, at different    *)
(* indices.                                                                *)
(***************************************************************************)
\* Word i of "en": three letters that spell i in base 26, then "en".
EnWord(i) == <<97 + (i \div 676), 97 + ((i \div 26) % 26), 97 + (i % 26), 101, 110>>

\* Word i of "eo": "o", three letters that spell i in base 26, then "j".
EoWord(i) == <<111, 97 + (i \div 676), 97 + ((i \div 26) % 26), 97 + (i % 26), 106>>

\* The word of "en" that "eo" holds too, and where "eo" holds it.
SharedWord == EnWord(7)

SharedAtEo == 3

WORDSETSORIGINAL ==
    << [name |-> "en", prefix_len |-> 3,
        words |-> [i \in 1..L |-> EnWord(i - 1)]],
       [name |-> "eo", prefix_len |-> 4,
        words |-> [i \in 1..L |-> IF i - 1 = SharedAtEo THEN SharedWord ELSE EoWord(i - 1)]] >>

NumWordsets == Len(WORDSETSORIGINAL)

\* The words of each wordset as a set, and each word's 0-based position.
WordsOf == [k \in 1..NumWordsets |-> {WORDSETSORIGINAL[k].words[i] : i \in 1..L}]

PositionOf ==
    [k \in 1..NumWordsets |->
        [w \in WordsOf[k] |-> (CHOOSE i \in 1..L : WORDSETSORIGINAL[k].words[i] = w) - 1]]

\* &word[..n]; the caller has checked that the word has n characters.
Prefix(word, n) == SubSeq(word, 1, n)

\* trunc_words: every word of the wordset cut to prefix_len characters.
TruncOf == [k \in 1..NumWordsets |->
              {Prefix(w, WORDSETSORIGINAL[k].prefix_len) : w \in WordsOf[k]}]

TruncPositionOf ==
    [k \in 1..NumWordsets |->
        [t \in TruncOf[k] |->
            (CHOOSE i \in 1..L :
                Prefix(WORDSETSORIGINAL[k].words[i], WORDSETSORIGINAL[k].prefix_len) = t) - 1]]

\* wordset.words.contains(word)
Contains(k, word) == word \in WordsOf[k]

\* words.iter().position(|x| x == word), -1 when absent (find_index).
find_index(k, word) == IF word \in WordsOf[k] THEN PositionOf[k][word] ELSE -1

\* trunc_words.iter().position(|x| x == prefix), -1 when absent.
find_trunc_index(k, prefix) == IF prefix \in TruncOf[k] THEN TruncPositionOf[k][prefix] ELSE -1

(***************************************************************************)
(* 32-bit values as limbs <<hi, lo>>, each in 0..65535, and CRC-32         *)
(* (crc32fast::Hasher: reflected polynomial EDB88320, initial value and    *)
(* final xor FFFFFFFF).                                                    *)
(***************************************************************************)
XorBit(a, b, k) == (((a \div k) + (b \div k)) % 2) * k

Xor4 == [a \in 0..15 |-> [b \in 0..15 |->
            XorBit(a, b, 1) + XorBit(a, b, 2) + XorBit(a, b, 4) + XorBit(a, b, 8)]]

Xor8(a, b) == Xor4[a \div 16][b \div 16] * 16 + Xor4[a % 16][b % 16]

Xor16(a, b) == Xor8(a \div 256, b \div 256) * 256 + Xor8(a % 256, b % 256)

Xor32(a, b) == <<Xor16(a[1], b[1]), Xor16(a[2], b[2])>>

Shr1(c) == <<c[1] \div 2, (c[2] \div 2) + (c[1] % 2) * 32768>>

Shr8(c) == <<c[1] \div 256, (c[2] \div 256) + (c[1] % 256) * 256>>

CrcPoly == <<60856, 33568>>

AllOnes32 == <<65535, 65535>>

RECURSIVE CrcBits(_, _)
CrcBits(c, k) ==
    IF k = 0 THEN c
    ELSE CrcBits(IF c[2] % 2 = 1 THEN Xor32(CrcPoly, Shr1(c)) ELSE Shr1(c), k - 1)

Crc32Table == [n \in 0..255 |-> CrcBits(<<0, n>>, 8)]

Crc32Update(c, byte) == Xor32(Crc32Table[Xor8(c[2] % 256, byte)], Shr8(c))

RECURSIVE Crc32Fold(_, _, _, _)
\* The checksum state c after bytes[lo..hi], first half then second half.
Crc32Fold(c, bytes, lo, hi) ==
    IF lo > hi THEN c
    ELSE IF lo = hi THEN Crc32Update(c, bytes[lo])
    ELSE LET half == Crc32Fold(c, bytes, lo, (lo + hi) \div 2)
         IN  IF half[1] < 0 THEN half
             ELSE Crc32Fold(half, bytes, (lo + hi) \div 2 + 1, hi)

\* hasher.update(bytes); hasher.finalize()
Crc32(bytes) == Xor32(Crc32Fold(AllOnes32, bytes, 1, Len(bytes)), AllOnes32)

\* A limb pair reduced modulo n (n small).
Mod32(c, n) == (((c[1] % n) * (65536 % n)) + c[2]) % n

RECURSIVE Flatten(_, _, _)
\* parts[lo] \o ... \o parts[hi]
Flatten(parts, lo, hi) ==
    IF lo > hi THEN <<>>
    ELSE IF lo = hi THEN parts[lo]
    ELSE Flatten(parts, lo, (lo + hi) \div 2) \o Flatten(parts, (lo + hi) \div 2 + 1, hi)

\* trimmed_words: the first prefix_length characters of every word.
TrimmedWords(array, prefix_length) ==
    Flatten([i \in 1..Len(array) |-> Prefix(array[i], prefix_length)], 1, Len(array))

\* get_checksum_index, on a non-empty array of words of at least
\* prefix_length characters (the 0-based index).
get_checksum_index(array, prefix_length) ==
    Mod32(Crc32(TrimmedWords(array, prefix_length)), Len(array))

(***************************************************************************)
(* Triplet packing, formatting and byte swapping.                          *)
(***************************************************************************)
\* x in 32-bit arithmetic that wraps: a faulty variant, kept to show what
\* C15 rests on.
Pack32(w1, w2, w3) ==
    LET a == w1 + L * (((L - w1) + w2) % L)
        c == ((L - w2) + w3) % L
        t == a + ((L * L) % 65536) * c
    IN  <<(((L * L) \div 65536) * c + (t \div 65536)) % 65536, t % 65536>>

\* x = w1 + L*((L - w1 + w2) % L) + L*L*((L - w2 + w3) % L) in 64-bit
\* arithmetic, as <<x div 65536, x mod 65536>>.
Pack(w1, w2, w3) ==
    LET a == w1 + L * (((L - w1) + w2) % L)
        c == ((L - w2) + w3) % L
        t == a + ((L * L) % 65536) * c
    IN  <<((L * L) \div 65536) * c + (t \div 65536), t % 65536>>

\* One hexadecimal digit as its lower-case ASCII character; a character of
\* a hex string is the item <<c>>.
HexChar(d) == IF d < 10 THEN <<48 + d>> ELSE <<87 + d>>

RECURSIVE HexMin(_, _)
\* n in hexadecimal, padded with zeros to at least width characters.
HexMin(n, width) ==
    IF n < 16 /\ width <= 1 THEN <<HexChar(n)>>
    ELSE Append(HexMin(n \div 16, width - 1), HexChar(n % 16))

\* format!("{:08x}", x)
FormatHex08(x) == HexMin(x[1], 4) \o HexMin(x[2], 4)

\* New revision: no length check, the first eight characters are used.
swap_endian_4_byte(s) ==
    SubSeq(s, 7, 8) \o SubSeq(s, 5, 6) \o SubSeq(s, 3, 4) \o SubSeq(s, 1, 2)

\* Old revision: a string of another length than 8 panics (<<>> here).
swap_endian_4_byte_old(s) ==
    IF Len(s) # 8 THEN <<>>
    ELSE SubSeq(s, 7, 8) \o SubSeq(s, 5, 6) \o SubSeq(s, 3, 4) \o SubSeq(s, 1, 2)

(***************************************************************************)
(* derive_hex_seed, new revision (src/src/keys/keys.rs).                    *)
(***************************************************************************)
Failure(why, k) == [outcome |-> why, seed |-> <<>>, ws |-> k]

\* The first wordset that contains every word of the mnemonic, 0 if none.
find_wordset(m) ==
    LET fits == {k \in 1..NumWordsets : \A j \in 1..Len(m) : Contains(k, m[j])}
    IN  IF fits = {} THEN 0 ELSE CHOOSE k \in fits : \A o \in fits : k <= o

\* The index of word j of the data words: mnemonic_seed[j] panics past the
\* end, and &word[..prefix_len] panics on a shorter word.
word_index(k, data, j) ==
    LET p == WORDSETSORIGINAL[k].prefix_len
    IN  IF j > Len(data) THEN [err |-> "IndexOutOfBounds", idx |-> -1]
        ELSE IF p = 0
             THEN IF find_index(k, data[j]) = -1
                  THEN [err |-> "InvalidWord", idx |-> -1]
                  ELSE [err |-> "ok", idx |-> find_index(k, data[j])]
        ELSE IF Len(data[j]) < p THEN [err |-> "SliceOutOfBounds", idx |-> -1]
        ELSE IF find_trunc_index(k, Prefix(data[j], p)) = -1
             THEN [err |-> "InvalidWord", idx |-> -1]
        ELSE [err |-> "ok", idx |-> find_trunc_index(k, Prefix(data[j], p))]

RECURSIVE decode_triplets(_, _, _, _)
\* The loop over the data words, three at a time, from word i (1-based).
decode_triplets(k, data, i, hex_seed) ==
    IF i > Len(data) THEN [outcome |-> "ok", seed |-> hex_seed, ws |-> k]
    ELSE LET a == word_index(k, data, i)
             b == word_index(k, data, i + 1)
             c == word_index(k, data, i + 2)
         IN  IF a.err # "ok" THEN Failure(a.err, k)
             ELSE IF b.err # "ok" THEN Failure(b.err, k)
             ELSE IF c.err # "ok" THEN Failure(c.err, k)
             ELSE LET x == Pack(a.idx, b.idx, c.idx)
                  IN  IF Mod32(x, L) # a.idx THEN Failure("Consistency", k)
                      ELSE decode_triplets(k, data, i + 3,
                               hex_seed \o swap_endian_4_byte(FormatHex08(x)))

\* mnemonic_seed.pop(): the last word is dropped, if there is one.
Pop(m) == IF Len(m) = 0 THEN m ELSE SubSeq(m, 1, Len(m) - 1)

derive_hex_seed(m) ==
    LET k == find_wordset(m)
    IN  IF k = 0 THEN Failure("WordsetNotFound", 0)
        ELSE decode_triplets(k,
                 IF WORDSETSORIGINAL[k].prefix_len > 0 THEN Pop(m) ELSE m, 1, <<>>)

(***************************************************************************)
(* derive_hex_seed, old revision (src/src/keys.rs).                         *)
(***************************************************************************)
\* The wordset the nested loops leave in the_wordset: the inner break leaves
\* the outer loop running, so the last wordset holding any word of the
\* mnemonic wins; 0 if none holds one.
find_wordset_old(m) ==
    LET hits == {k \in 1..NumWordsets : \E j \in 1..Len(m) : Contains(k, m[j])}
    IN  IF hits = {} THEN 0 ELSE CHOOSE k \in hits : \A o \in hits : k >= o

\* find_index of word j, by its first prefix_len characters when
\* prefix_len > 0 (the slice panics on a shorter word).
word_index_old(k, data, j) ==
    LET p == WORDSETSORIGINAL[k].prefix_len
    IN  IF p = 0 THEN [err |-> "ok", idx |-> find_index(k, data[j])]
        ELSE IF Len(data[j]) < p THEN [err |-> "SliceOutOfBounds", idx |-> -1]
        ELSE [err |-> "ok", idx |-> find_trunc_index(k, Prefix(data[j], p))]

RECURSIVE decode_triplets_old(_, _, _, _)
decode_triplets_old(k, data, i, hex_seed) ==
    IF i > Len(data) THEN [outcome |-> "ok", seed |-> hex_seed, ws |-> k]
    ELSE LET a == word_index_old(k, data, i)
             b == word_index_old(k, data, i + 1)
             c == word_index_old(k, data, i + 2)
         IN  IF a.err # "ok" THEN Failure(a.err, k)
             ELSE IF b.err # "ok" THEN Failure(b.err, k)
             ELSE IF c.err # "ok" THEN Failure(c.err, k)
             ELSE IF a.idx = -1 \/ b.idx = -1 \/ c.idx = -1 THEN Failure("InvalidWord", k)
             ELSE LET x == Pack(a.idx, b.idx, c.idx)
                      swapped == swap_endian_4_byte_old(FormatHex08(x))
                  IN  IF Mod32(x, L) # a.idx THEN Failure("Consistency", k)
                      ELSE IF swapped = <<>> THEN Failure("InvalidLength", k)
                      ELSE decode_triplets_old(k, data, i + 3, hex_seed \o swapped)

\* The last-word check that ends the old derive_hex_seed.
verify_checksum_old(k, data, checksum_word, decoded) ==
    LET p == WORDSETSORIGINAL[k].prefix_len
    IN  IF Len(data) = 0 THEN Failure("DivideByZero", k)
        ELSE IF Len(checksum_word) < p THEN Failure("SliceOutOfBounds", k)
        ELSE IF Prefix(data[get_checksum_index(data, p) + 1], p) # Prefix(checksum_word, p)
             THEN Failure("ChecksumMismatch", k)
        ELSE decoded

derive_hex_seed_old(m) ==
    LET k == find_wordset_old(m)
        p == WORDSETSORIGINAL[k].prefix_len
        n == Len(m)
    IN  IF k = 0 THEN Failure("WordsetNotFound", 0)
        ELSE IF (p = 0 /\ n % 3 # 0) \/ (p > 0 /\ n % 3 = 2) THEN Failure("TooFewWords", k)
        ELSE IF p > 0 /\ n % 3 = 0 THEN Failure("MissingLastWord", k)
        ELSE IF p = 0 THEN decode_triplets_old(k, m, 1, <<>>)
        ELSE LET decoded == decode_triplets_old(k, Pop(m), 1, <<>>)
             IN  IF decoded.outcome # "ok" THEN decoded
                 ELSE verify_checksum_old(k, Pop(m), m[n], decoded)

(***************************************************************************)
(* generate_seed.  The random draws are an input: a sequence of word       *)
(* indices, one per call of secure_random_element.                         *)
(***************************************************************************)
\* The position in the registry of the wordset named language, 0 if none.
wordset_named(language) ==
    IF \E k \in 1..NumWordsets : WORDSETSORIGINAL[k].name = language
    THEN CHOOSE k \in 1..NumWordsets :
            /\ WORDSETSORIGINAL[k].name = language
            /\ \A o \in 1..k - 1 : WORDSETSORIGINAL[o].name # language
    ELSE 0

\* The checksum word taken to be the first data word whatever the checksum
\* index: a faulty variant, kept to show what C10 rests on.
with_checksum_first(seed, prefix_len) == Append(seed, seed[1])

\* seed.push(seed[checksum_index])
with_checksum(seed, prefix_len) == Append(seed, seed[get_checksum_index(seed, prefix_len) + 1])

\* The body shared by generate_original_seed, generate_mymonero_seed and
\* generate1626seed: n draws from the wordset named language, then the
\* checksum word.
generate_words(language, n, draws) ==
    LET k == wordset_named(language)
    IN  IF k = 0 THEN [outcome |-> "LanguageNotFound", words |-> <<>>]
        ELSE [outcome |-> "ok",
              words |-> with_checksum([i \in 1..n |-> WORDSETSORIGINAL[k].words[draws[i] + 1]],
                                      WORDSETSORIGINAL[k].prefix_len)]

generate_original_seed(language, draws) == generate_words(language, OriginalDraws, draws)

generate_mymonero_seed(language, draws) == generate_words(language, MyMoneroDraws, draws)

\* Every seed type but "mymonero" taken for "original": a faulty variant,
\* kept to show what C11 rests on.
generate_seed_degrading(language, seed_type, draws) ==
    IF seed_type = "mymonero" THEN generate_mymonero_seed(language, draws)
    ELSE generate_original_seed(language, draws)

generate_seed(language, seed_type, draws) ==
    IF seed_type = "original" THEN generate_original_seed(language, draws)
    ELSE IF seed_type = "mymonero" THEN generate_mymonero_seed(language, draws)
    ELSE IF seed_type = "polyseed" THEN [outcome |-> "NotImplemented", words |-> <<>>]
    ELSE [outcome |-> "InvalidSeedType", words |-> <<>>]

\* Old revision: the only seed type is "1626".
generate1626seed(language, draws) == generate_words(language, OriginalDraws, draws)

generate_seed_old(language, seed_type, draws) ==
    IF seed_type = "1626" THEN generate1626seed(language, draws)
    ELSE IF seed_type = "polyseed" THEN [outcome |-> "NotImplemented", words |-> <<>>]
    ELSE [outcome |-> "InvalidSeedType", words |-> <<>>]

(***************************************************************************)
(* Byte strings and hex strings of the key functions.                      *)
(* A byte string is a sequence of items: a byte <<b>>, or the output       *)
(* <<tag, argument>> of an external primitive.  Keccak256, sc_reduce32 and *)
(* the curve give 32 bytes, hash[..4] gives 4.  A hex string is a sequence *)
(* of characters <<c>> and of items <<Tag.hex, item>>: the two characters  *)
(* per byte of a primitive's output.                                       *)
(***************************************************************************)
Tag == [keccak |-> 1001, reduce |-> 1002, point |-> 1003, first4 |-> 1004,
        hex |-> 1005, base58 |-> 1006]

\* Keccak256::digest(bytes)
Keccak256(bytes) == << <<Tag.keccak, bytes>> >>

\* sc_reduce32(&mut array)
sc_reduce32(bytes) == << <<Tag.reduce, bytes>> >>

\* ge_scalar_mult_base(&Scalar::from_bytes_mod_order(array)).compress()
ge_scalar_mult_base(bytes) == << <<Tag.point, bytes>> >>

\* hash[..4]
First4(hash) == << <<Tag.first4, hash>> >>

\* base58_monero::encode(&data)
Base58Encode(data) == << <<Tag.base58, data>> >>

\* The number of bytes of one item.
ItemBytes(item) == IF Len(item) = 1 THEN 1 ELSE IF item[1] = Tag.first4 THEN 4 ELSE 32

\* The number of bytes of a byte string.
ByteLen(bytes) ==
    Len(bytes)
    + 3 * Cardinality({i \in 1..Len(bytes) : ItemBytes(bytes[i]) = 4})
    + 31 * Cardinality({i \in 1..Len(bytes) : ItemBytes(bytes[i]) = 32})

\* String::len() of a hex string.
StrLen(str) ==
    Len(str)
    + 7 * Cardinality({i \in 1..Len(str) : Len(str[i]) = 2 /\ ItemBytes(str[i][2]) = 4})
    + 63 * Cardinality({i \in 1..Len(str) : Len(str[i]) = 2 /\ ItemBytes(str[i][2]) = 32})

\* format!("{:02x}", byte) for every byte.
HexEncode(bytes) ==
    Flatten([i \in 1..Len(bytes) |->
                IF Len(bytes[i]) = 1
                THEN <<HexChar(bytes[i][1] \div 16), HexChar(bytes[i][1] % 16)>>
                ELSE << <<Tag.hex, bytes[i]>> >>], 1, Len(bytes))

\* The value of a hex character, -1 for any other character.
HexVal(c) ==
    IF c >= 48 /\ c <= 57 THEN c - 48
    ELSE IF c >= 97 /\ c <= 102 THEN c - 87
    ELSE IF c >= 65 /\ c <= 70 THEN c - 55
    ELSE -1

FromHexError == << <<-1>> >>

\* Whether character i of the string is the first of a pair: the characters
\* pair up from the last item before them that is no character.
FirstOfPair(str, i) ==
    LET before == {j \in 1..i - 1 : Len(str[j]) = 2}
        start == IF before = {} THEN 0 ELSE CHOOSE j \in before : \A o \in before : j >= o
    IN  (i - start) % 2 = 1

\* hex::decode(str): FromHexError for a character that is no hex digit or
\* has no partner.
HexDecode(str) ==
    IF \E i \in 1..Len(str) :
          /\ Len(str[i]) = 1
          /\ \/ HexVal(str[i][1]) = -1
             \/ FirstOfPair(str, i) /\ (i = Len(str) \/ Len(str[i + 1]) = 2)
    THEN FromHexError
    ELSE Flatten([i \in 1..Len(str) |->
                    IF Len(str[i]) = 2 THEN <<str[i][2]>>
                    ELSE IF FirstOfPair(str, i)
                         THEN << <<16 * HexVal(str[i][1]) + HexVal(str[i + 1][1])>> >>
                    ELSE <<>>], 1, Len(str))

NoKeys(why) == [outcome |-> why, spend |-> <<>>, view |-> <<>>]

NoKey(why) == [outcome |-> why, key |-> <<>>]

(***************************************************************************)
(* derive_priv_keys and what follows it (src/src/keys/keys.rs; the old     *)
(* revision where it differs).                                             *)
(***************************************************************************)
\* The view key hashed from the seed instead of from the reduced spend key: a
\* faulty variant, kept to show what C5 rests on.
derive_original_priv_keys_unreduced(hex_seed) ==
    LET hex_bytes == HexDecode(hex_seed)
        priv_spend_key == HexEncode(sc_reduce32(hex_bytes))
        priv_view_key == HexEncode(sc_reduce32(Keccak256(hex_bytes)))
    IN  IF hex_bytes = FromHexError THEN NoKeys("FromHexError")
        ELSE IF ByteLen(hex_bytes) # 32 THEN NoKeys("LengthMismatch")
        ELSE [outcome |-> "ok", spend |-> priv_spend_key, view |-> priv_view_key]

derive_original_priv_keys(hex_seed) ==
    LET hex_bytes == HexDecode(hex_seed)
        priv_spend_key == HexEncode(sc_reduce32(hex_bytes))
        priv_spend_key_bytes == HexDecode(priv_spend_key)
        priv_view_key == HexEncode(sc_reduce32(Keccak256(priv_spend_key_bytes)))
    IN  IF hex_bytes = FromHexError THEN NoKeys("FromHexError")
        ELSE IF ByteLen(hex_bytes) # 32 THEN NoKeys("LengthMismatch")
        ELSE IF priv_spend_key_bytes = FromHexError THEN NoKeys("FromHexError")
        ELSE [outcome |-> "ok", spend |-> priv_spend_key, view |-> priv_view_key]

\* The view key chained through the spend key, as in the 32-byte path: a
\* faulty variant, kept to show what C6 rests on.
derive_mymonero_priv_keys_chained(hex_seed) ==
    LET hex_bytes == HexDecode(hex_seed)
        priv_spend_key == HexEncode(sc_reduce32(Keccak256(hex_bytes)))
        priv_view_key == HexEncode(sc_reduce32(Keccak256(HexDecode(priv_spend_key))))
    IN  IF hex_bytes = FromHexError THEN NoKeys("FromHexError")
        ELSE [outcome |-> "ok", spend |-> priv_spend_key, view |-> priv_view_key]

derive_mymonero_priv_keys(hex_seed) ==
    LET hex_bytes == HexDecode(hex_seed)
        priv_spend_key == HexEncode(sc_reduce32(Keccak256(hex_bytes)))
        priv_view_key == HexEncode(sc_reduce32(Keccak256(Keccak256(hex_bytes))))
    IN  IF hex_bytes = FromHexError THEN NoKeys("FromHexError")
        ELSE [outcome |-> "ok", spend |-> priv_spend_key, view |-> priv_view_key]

derive_priv_keys(hex_seed) ==
    IF StrLen(hex_seed) = 32 THEN derive_mymonero_priv_keys(hex_seed)
    ELSE IF StrLen(hex_seed) = 64 THEN derive_original_priv_keys(hex_seed)
    ELSE NoKeys("InvalidHexSeed")

\* Old revision: every seed takes the 32-byte path.
derive_priv_keys_old(hex_seed) == derive_original_priv_keys(hex_seed)

derive_priv_vk_from_priv_sk(private_spend_key) ==
    LET priv_spend_key_bytes == HexDecode(private_spend_key)
    IN  IF priv_spend_key_bytes = FromHexError THEN NoKey("FromHexError")
        ELSE [outcome |-> "ok",
              key |-> HexEncode(sc_reduce32(Keccak256(priv_spend_key_bytes)))]

derive_pub_key(private_key) ==
    LET private_key_bytes == HexDecode(private_key)
    IN  IF private_key_bytes = FromHexError THEN NoKey("FromHexError")
        ELSE IF ByteLen(private_key_bytes) # 32 THEN NoKey("LengthMismatch")
        ELSE [outcome |-> "ok", key |-> HexEncode(ge_scalar_mult_base(private_key_bytes))]

\* Every network but 0 taken for the testnet: a faulty variant, kept to show
\* what C9 rests on.
network_byte_lenient(network) == IF network = 0 THEN << <<18>> >> ELSE << <<53>> >>

\* The network byte of derive_address, <<>> for a network it refuses.
network_byte(network) ==
    IF network = 0 THEN << <<18>> >> ELSE IF network = 1 THEN << <<53>> >> ELSE <<>>

\* The buffer derive_address encodes: the tagged keys and the first four
\* bytes of their hash.
address_data(tag, pub_sk_bytes, pub_vk_bytes) ==
    LET data == tag \o pub_sk_bytes \o pub_vk_bytes
    IN  data \o First4(Keccak256(data))

derive_address(public_spend_key, public_view_key, network) ==
    LET pub_sk_bytes == HexDecode(public_spend_key)
        pub_vk_bytes == HexDecode(public_view_key)
    IN  IF network_byte(network) = <<>> THEN NoKey("InvalidNetwork")
        ELSE IF pub_sk_bytes = FromHexError \/ pub_vk_bytes = FromHexError THEN NoKey("FromHexError")
        ELSE [outcome |-> "ok",
              key |-> Base58Encode(address_data(network_byte(network), pub_sk_bytes, pub_vk_bytes))]

\* Old revision: the network is an i8, the body is the same.
derive_address_old(public_spend_key, public_view_key, network) ==
    derive_address(public_spend_key, public_view_key, network)

(***************************************************************************)
(* The encoder the specification describes (section 4.3, "Encode is the    *)
(* inverse"); the sources hold no encoder.                                 *)
(***************************************************************************)
\* The value of a string of hex digits, most significant first.
RECURSIVE HexValue(_)
HexValue(s) ==
    IF s = <<>> THEN 0 ELSE 16 * HexValue(SubSeq(s, 1, Len(s) - 1)) + HexVal(s[Len(s)][1])

\* The 4-byte little-endian group of 8 hex characters as <<hi, lo>>.
GroupValue(g) ==
    <<HexValue(SubSeq(g, 7, 8) \o SubSeq(g, 5, 6)), HexValue(SubSeq(g, 3, 4) \o SubSeq(g, 1, 2))>>

\* x div L for x = <<hi, lo>> below 2^32.
DivL(x) == (x[1] \div L) * 65536 + (((x[1] % L) * 65536 + x[2]) \div L)

\* w1 = x mod L, w2 = (x div L + w1) mod L, w3 = (x div L^2 + w2) mod L
Unpack(x) ==
    LET w1 == Mod32(x, L)
        w2 == (DivL(x) + w1) % L
        w3 == ((DivL(x) \div L) + w2) % L
    IN  <<w1, w2, w3>>

RECURSIVE encode_words(_, _, _)
encode_words(k, seed, i) ==
    IF i > Len(seed) THEN <<>>
    ELSE LET t == Unpack(GroupValue(SubSeq(seed, i, i + 7)))
         IN  <<WORDSETSORIGINAL[k].words[t[1] + 1], WORDSETSORIGINAL[k].words[t[2] + 1],
               WORDSETSORIGINAL[k].words[t[3] + 1]>> \o encode_words(k, seed, i + 8)

\* The mnemonic of a seed of 8, 16, ... hex characters in wordset k.
encode_seed(k, seed) == with_checksum(encode_words(k, seed, 1), WORDSETSORIGINAL[k].prefix_len)

(***************************************************************************)
(* The checksum of the 16-word seeds: arithmetic in GF(2048).              *)
(***************************************************************************)
POLYSEED_MUL2_TABLE == <<5, 7, 1, 3, 13, 15, 9, 11>>

\* The reduction left out, 2x cut to eleven bits: a faulty variant, kept to
\* show what C16 rests on.
gf_elem_mul2_unreduced(x) == IF x < GfHalf THEN 2 * x ELSE 2 * x - 2 * GfHalf

\* The upper bits taken from (x - 1024) / 16: a faulty variant, kept to show
\* what C17 rests on.
gf_elem_mul2_shifted(x) ==
    IF x < GfHalf THEN 2 * x
    ELSE POLYSEED_MUL2_TABLE[(x % 8) + 1] + 16 * ((x - GfHalf) \div 16)

gf_elem_mul2(x) ==
    IF x < GfHalf THEN 2 * x
    ELSE POLYSEED_MUL2_TABLE[(x % 8) + 1] + 16 * ((x - GfHalf) \div 8)

RECURSIVE Horner(_, _, _)
\* The loop of gf_poly_eval from coefficient i down to coefficient 0.
Horner(coeff, i, result) ==
    IF i < 0 THEN result
    ELSE Horner(coeff, i - 1, Xor16(gf_elem_mul2(result), coeff[i]))

\* Horner's method at x = 2; the coefficients are a function on 0..15.
gf_poly_eval(coeff) == Horner(coeff, NumCoeff - 2, coeff[NumCoeff - 1])

(***************************************************************************)
(* The inputs of the model.                                                *)
(***************************************************************************)
\* The word indices secure_random_element returns in the model.
SampleIdx == (0..NLow - 1) \cup (L - NHigh..L - 1)

\* The draws of one call of generate_seed: one index everywhere but at one
\* position.
DrawSeqs ==
    {[i \in 1..OriginalDraws |-> IF i = at THEN b ELSE a] :
        a \in SampleIdx, b \in SampleIdx, at \in 1..OriginalDraws}

\* A string that is no word of any wordset, one that is shorter than any
\* prefix length, and the first three characters of a word of "en".
JunkWord == <<122, 122, 122, 122, 122>>

ShortWord == <<122, 122>>

Abbreviation == Prefix(EnWord(0), 3)

\* The words a caller types.
Vocabulary ==
    {EnWord(0), EnWord(L - 1), SharedWord, EoWord(1), JunkWord, ShortWord, Abbreviation}

Languages == {"en", "eo", "xx"}

SeedTypes == {"original", "mymonero", "polyseed", "1626", "other"}

Repeat(c, n) == [i \in 1..n |-> <<c>>]

\* The hex strings a caller passes: 32 bytes, 16 bytes, 4 bytes, nothing,
\* an odd number of digits, and 64 characters that are no hex digits.
SampleHex ==
    {Repeat(49, 64), Repeat(97, 32), Repeat(50, 8), <<>>, Repeat(51, 3), Repeat(122, 64)}

\* The networks a caller passes (u8 in the new revision, i8 in the old).
Networks(r) == IF r = "new" THEN {0, 1, 2, 18, 53, 255} ELSE {-128, -1, 0, 1, 2, 127}

(***************************************************************************)
(* The state: one session of a caller of the library.                      *)
(***************************************************************************)
VARIABLES
    rev,        \* the revision the caller uses: "old" or "new"
    mnemonic,   \* the phrase at hand
    origin,     \* where the phrase comes from, and how generate_seed ended
    hexres,     \* the last result of derive_hex_seed
    prev_seed,  \* the seed the phrase was re-encoded from
    keys,       \* the result of derive_priv_keys
    vk,         \* the result of derive_priv_vk_from_priv_sk
    pub,        \* the results of derive_pub_key: the spend and the view key
    addr,       \* the result of derive_address
    gf          \* the GF(2048) computation at hand

vars == <<rev, mnemonic, origin, hexres, prev_seed, keys, vk, pub, addr, gf>>

\* No computation in GF(2048) is at hand.
GfIdle == [kind |-> "idle", x |-> 0, y |-> 0, coeff |-> [j \in 0..NumCoeff - 1 |-> 0],
           at |-> 0, check |-> 0, step |-> 0]

NoHex == [called |-> FALSE, outcome |-> "none", seed |-> <<>>, ws |-> 0]

NoCall == [called |-> FALSE, input |-> <<>>, outcome |-> "none", key |-> <<>>]

NoKeysYet == [called |-> FALSE, input |-> <<>>, outcome |-> "none", spend |-> <<>>, view |-> <<>>]

NoAddr == [called |-> FALSE, spend |-> <<>>, view |-> <<>>, network |-> 0,
           outcome |-> "none", key |-> <<>>]

Init ==
    /\ rev \in {"old", "new"}
    /\ mnemonic = <<>>
    /\ origin = [kind |-> "none", language |-> "", seed_type |-> "", outcome |-> "ok"]
    /\ hexres = NoHex
    /\ prev_seed = <<>>
    /\ keys = NoKeysYet
    /\ vk = NoCall
    /\ pub = [spend |-> NoCall, view |-> NoCall]
    /\ addr = NoAddr
    /\ gf = GfIdle

NoKeyCall == ~keys.called /\ ~vk.called /\ ~pub.spend.called /\ ~pub.view.called /\ ~addr.called

\* Nothing has been typed, generated or called.
Fresh == origin.kind = "none" /\ mnemonic = <<>> /\ ~hexres.called /\ NoKeyCall

\* The caller types one more word.
TypeWord ==
    /\ origin.kind \in {"none", "typed"}
    /\ ~hexres.called /\ NoKeyCall
    /\ Len(mnemonic) < MaxTyped
    /\ \E w \in Vocabulary : mnemonic' = Append(mnemonic, w)
    /\ origin' = [origin EXCEPT !.kind = "typed"]
    /\ UNCHANGED <<gf, rev, hexres, prev_seed, keys, vk, pub, addr>>

\* generate_seed(language, seed_type)
GenerateSeed ==
    /\ Fresh
    /\ \E language \in Languages, seed_type \in SeedTypes, draws \in DrawSeqs :
          LET r == IF rev = "new" THEN generate_seed(language, seed_type, draws)
                   ELSE generate_seed_old(language, seed_type, draws)
          IN  /\ mnemonic' = r.words
              /\ origin' = [kind |-> "generated", language |-> language,
                            seed_type |-> seed_type, outcome |-> r.outcome]
    /\ UNCHANGED <<gf, rev, hexres, prev_seed, keys, vk, pub, addr>>

\* The caller replaces the last word of a generated phrase.
TamperChecksum ==
    /\ origin.kind = "generated" /\ origin.outcome = "ok"
    /\ ~hexres.called /\ NoKeyCall
    /\ \E w \in Vocabulary \ {mnemonic[Len(mnemonic)]} :
          mnemonic' = [mnemonic EXCEPT ![Len(mnemonic)] = w]
    /\ origin' = [origin EXCEPT !.kind = "tampered"]
    /\ UNCHANGED <<gf, rev, hexres, prev_seed, keys, vk, pub, addr>>

\* derive_hex_seed(mnemonic)
DeriveHexSeed ==
    /\ origin.outcome = "ok"
    /\ ~hexres.called /\ NoKeyCall
    /\ LET r == IF rev = "new" THEN derive_hex_seed(mnemonic) ELSE derive_hex_seed_old(mnemonic)
       IN  hexres' = [called |-> TRUE, outcome |-> r.outcome, seed |-> r.seed, ws |-> r.ws]
    /\ UNCHANGED <<gf, rev, mnemonic, origin, prev_seed, keys, vk, pub, addr>>

\* The caller encodes the seed it got back into a phrase of the same wordset.
ReEncode ==
    /\ hexres.called /\ hexres.outcome = "ok" /\ Len(hexres.seed) > 0
    /\ origin.kind # "encoded" /\ NoKeyCall
    /\ mnemonic' = encode_seed(hexres.ws, hexres.seed)
    /\ prev_seed' = hexres.seed
    /\ origin' = [origin EXCEPT !.kind = "encoded",
                                !.language = WORDSETSORIGINAL[hexres.ws].name]
    /\ hexres' = NoHex
    /\ UNCHANGED <<gf, rev, keys, vk, pub, addr>>

\* The strings a call is given: what the step before returned, or, in a
\* session that starts with this call, a string of the caller's.
Given(chained, value) == IF chained THEN {value} ELSE IF Fresh THEN SampleHex ELSE {}

\* derive_priv_keys(hex_seed)
DerivePrivKeys ==
    /\ NoKeyCall
    /\ \E s \in Given(hexres.called /\ hexres.outcome = "ok", hexres.seed) :
          LET r == IF rev = "new" THEN derive_priv_keys(s) ELSE derive_priv_keys_old(s)
          IN  keys' = [called |-> TRUE, input |-> s, outcome |-> r.outcome,
                       spend |-> r.spend, view |-> r.view]
    /\ UNCHANGED <<gf, rev, mnemonic, origin, hexres, prev_seed, vk, pub, addr>>

\* derive_priv_vk_from_priv_sk(private_spend_key), the same in both revisions
DerivePrivVkFromPrivSk ==
    /\ ~vk.called /\ ~pub.spend.called /\ ~pub.view.called /\ ~addr.called
    /\ \E s \in Given(keys.called /\ keys.outcome = "ok", keys.spend) :
          LET r == derive_priv_vk_from_priv_sk(s)
          IN  vk' = [called |-> TRUE, input |-> s, outcome |-> r.outcome, key |-> r.key]
    /\ UNCHANGED <<gf, rev, mnemonic, origin, hexres, prev_seed, keys, pub, addr>>

\* derive_pub_key(private spend key), the same in both revisions
DerivePubSpendKey ==
    /\ ~pub.spend.called /\ ~pub.view.called /\ ~addr.called
    /\ \E s \in Given(vk.called /\ vk.outcome = "ok" /\ keys.outcome = "ok", keys.spend) :
          LET r == derive_pub_key(s)
          IN  pub' = [pub EXCEPT !.spend = [called |-> TRUE, input |-> s,
                                            outcome |-> r.outcome, key |-> r.key]]
    /\ UNCHANGED <<gf, rev, mnemonic, origin, hexres, prev_seed, keys, vk, addr>>

\* derive_pub_key(private view key)
DerivePubViewKey ==
    /\ pub.spend.called /\ pub.spend.outcome = "ok" /\ vk.outcome = "ok"
    /\ ~pub.view.called /\ ~addr.called
    /\ LET r == derive_pub_key(vk.key)
       IN  pub' = [pub EXCEPT !.view = [called |-> TRUE, input |-> vk.key,
                                         outcome |-> r.outcome, key |-> r.key]]
    /\ UNCHANGED <<gf, rev, mnemonic, origin, hexres, prev_seed, keys, vk, addr>>

\* derive_address(public_spend_key, public_view_key, network)
DeriveAddress ==
    /\ ~addr.called
    /\ \E s \in Given(pub.view.called /\ pub.view.outcome = "ok", pub.spend.key),
          v \in Given(pub.view.called /\ pub.view.outcome = "ok", pub.view.key),
          network \in Networks(rev) :
          LET r == IF rev = "new" THEN derive_address(s, v, network)
                   ELSE derive_address_old(s, v, network)
          IN  addr' = [called |-> TRUE, spend |-> s, view |-> v, network |-> network,
                       outcome |-> r.outcome, key |-> r.key]
    /\ UNCHANGED <<gf, rev, mnemonic, origin, hexres, prev_seed, keys, vk, pub>>

Next ==
    \/ TypeWord
    \/ GenerateSeed
    \/ TamperChecksum
    \/ DeriveHexSeed
    \/ ReEncode
    \/ DerivePrivKeys
    \/ DerivePrivVkFromPrivSk
    \/ DerivePubSpendKey
    \/ DerivePubViewKey
    \/ DeriveAddress

Spec == Init /\ [][Next]_vars

(***************************************************************************)
(* A second specification: gf_elem_mul2 and gf_poly_eval on their own.     *)
(* gf_elem_mul2 is applied to every element of the field; gf_poly_eval to  *)
(* codewords (sixteen coefficients that evaluate to 0) and to every change *)
(* of one coefficient of a codeword.                                       *)
(***************************************************************************)
GfElems == 0..2 * GfHalf - 1

\* The first data coefficients of the codewords.
GfSeeds == {2 * GfHalf - k : k \in 1..NGf}

\* Fifteen data coefficients a, 2a, 3a, ... (mod 2048) and the coefficient 0
\* that makes the sixteen evaluate to 0.
Codeword(a) ==
    LET data == [j \in 0..NumCoeff - 1 |-> (a * j) % (2 * GfHalf)]
    IN  [data EXCEPT ![0] = gf_poly_eval(data)]

GfInit ==
    /\ rev = "new"
    /\ mnemonic = <<>>
    /\ origin = [kind |-> "none", language |-> "", seed_type |-> "", outcome |-> "ok"]
    /\ hexres = NoHex
    /\ prev_seed = <<>>
    /\ keys = NoKeysYet
    /\ vk = NoCall
    /\ pub = [spend |-> NoCall, view |-> NoCall]
    /\ addr = NoAddr
    /\ \/ \E x \in GfElems : gf = [GfIdle EXCEPT !.kind = "elem", !.x = x]
       \/ \E a \in GfSeeds : gf = [GfIdle EXCEPT !.kind = "poly", !.coeff = Codeword(a)]

\* gf_elem_mul2(x)
GfElemMul2 ==
    /\ gf.kind = "elem" /\ gf.step = 0
    /\ gf' = [gf EXCEPT !.y = gf_elem_mul2(gf.x), !.step = 1]
    /\ UNCHANGED <<rev, mnemonic, origin, hexres, prev_seed, keys, vk, pub, addr>>

\* gf_poly_eval(&coeff)
GfPolyEval ==
    /\ gf.kind = "poly" /\ gf.step = 0
    /\ gf' = [gf EXCEPT !.check = gf_poly_eval(gf.coeff), !.step = 1]
    /\ UNCHANGED <<rev, mnemonic, origin, hexres, prev_seed, keys, vk, pub, addr>>

\* One coefficient of a codeword is replaced by another value, and
\* gf_poly_eval is called on the result.
GfSubstitute ==
    /\ gf.kind = "poly" /\ gf.step = 1 /\ gf.check = 0
    /\ \E i \in 0..NumCoeff - 1 : \E v \in GfElems \ {gf.coeff[i]} :
          gf' = [gf EXCEPT !.coeff = [gf.coeff EXCEPT ![i] = v],
                           !.at = i,
                           !.check = gf_poly_eval([gf.coeff EXCEPT ![i] = v]),
                           !.step = 2]
    /\ UNCHANGED <<rev, mnemonic, origin, hexres, prev_seed, keys, vk, pub, addr>>

GfNext ==
    \/ GfElemMul2
    \/ GfPolyEval
    \/ GfSubstitute

GfSpec == GfInit /\ [][GfNext]_vars

(***************************************************************************)
(* What the properties below read off a state in which derive_hex_seed has *)
(* been called on the phrase at hand.                                      *)
(***************************************************************************)
\* prefix_len of the wordset the call resolved, 0 if it resolved none.
ResolvedPrefixLen == IF hexres.ws = 0 THEN 0 ELSE WORDSETSORIGINAL[hexres.ws].prefix_len

\* The words before the trailing checksum word.
DataWords == IF ResolvedPrefixLen > 0 THEN Pop(mnemonic) ELSE mnemonic

\* The trailing word of the phrase.
ChecksumWord == mnemonic[Len(mnemonic)]

\* x of the g-th triplet of data words.
PackedGroup(g) ==
    Pack(word_index(hexres.ws, DataWords, 3 * g - 2).idx,
         word_index(hexres.ws, DataWords, 3 * g - 1).idx,
         word_index(hexres.ws, DataWords, 3 * g).idx)

\* The g-th group of eight characters of the returned seed.
SeedGroup(g) == SubSeq(hexres.seed, 8 * g - 7, 8 * g)

\* The phrase is one whose decoding nothing but the checksum can stop: a
\* positive multiple of three data words, all of the resolved wordset, a
\* trailing word long enough to be cut, every triplet below 2^32.
CleanPhrase ==
    /\ hexres.called /\ hexres.ws # 0 /\ ResolvedPrefixLen > 0
    /\ Len(DataWords) > 0 /\ Len(DataWords) % 3 = 0
    /\ \A j \in 1..Len(DataWords) : Contains(hexres.ws, DataWords[j])
    /\ Len(ChecksumWord) >= ResolvedPrefixLen
    /\ \A g \in 1..Len(DataWords) \div 3 : PackedGroup(g)[1] < 65536

\* The trailing word does not start like the data word at the checksum index.
ChecksumDiffers ==
    Prefix(ChecksumWord, ResolvedPrefixLen)
        # Prefix(DataWords[get_checksum_index(DataWords, ResolvedPrefixLen) + 1],
                 ResolvedPrefixLen)

(***************************************************************************)
(* C1..C10.                                                                *)
(***************************************************************************)
\* C1: in both revisions, derive_hex_seed on a phrase of a wordset with
\* prefix_len > 0 whose trailing word does not share its first prefix_len
\* characters with the data word at get_checksum_index fails with the
\* checksum-mismatch error and returns no seed.  The new revision returns
\* the seed of such a phrase: it never looks at the trailing word.
C1_ChecksumMismatch ==
    (CleanPhrase /\ ChecksumDiffers)
        => (hexres.outcome = "ChecksumMismatch" /\ hexres.seed = <<>>)

\* C2: in both revisions, derive_hex_seed on a phrase of a wordset with
\* prefix_len > 0 whose number of data words is no multiple of 3 fails with
\* the word-count error (too few words, or the last word missing), returns
\* no seed, and fails in no other way.  The new revision counts nothing and
\* indexes past the end of the data words.
C2_InvalidWordCount ==
    (/\ hexres.called /\ hexres.ws # 0 /\ ResolvedPrefixLen > 0
     /\ Len(mnemonic) > 0 /\ Len(DataWords) % 3 # 0)
        => (hexres.outcome \in {"TooFewWords", "MissingLastWord"} /\ hexres.seed = <<>>)

\* C3: for every triplet of word indices the new derive_hex_seed packs, x is
\* below 2^32 and the group of eight characters appended to the seed, read
\* as a little-endian integer, is x.  The triplet (0, 0, 1625) gives
\* x = 4296298500: nine hex digits, of which swap_endian_4_byte keeps eight.
C3_GroupIsX ==
    (rev = "new" /\ hexres.called /\ hexres.outcome = "ok")
        => \A g \in 1..Len(DataWords) \div 3 :
              /\ PackedGroup(g)[1] < 65536
              /\ GroupValue(SeedGroup(g)) = PackedGroup(g)

\* C4: a phrase the new derive_hex_seed accepts, encoded again from the seed
\* it gave (every group x back to w1 = x mod L, w2 = (x div L + w1) mod L,
\* w3 = (x div L^2 + w2) mod L, and the checksum word) and decoded again,
\* gives the same seed: decode(encode(decode(m))) = decode(m).  A phrase of
\* words that two wordsets share, closed by a word of the later wordset only,
\* is accepted (the trailing word is never checked) and resolves to the
\* later wordset; its encoding holds shared words only and resolves to the
\* earlier one, where the words have other indices.
C4_RoundTrip ==
    (rev = "new" /\ origin.kind = "encoded" /\ hexres.called)
        => (hexres.outcome = "ok" /\ hexres.seed = prev_seed)

\* What is left of the round trip: it holds whenever the encoded phrase
\* resolves to the wordset it was encoded in, triplets of 2^32 and more
\* included.
RoundTripWithinWordset ==
    (/\ rev = "new" /\ origin.kind = "encoded" /\ hexres.called
     /\ hexres.ws # 0 /\ WORDSETSORIGINAL[hexres.ws].name = origin.language)
        => (hexres.outcome = "ok" /\ hexres.seed = prev_seed)

\* The string is hex, of a number of bytes other than 32.
Malformed(input) == HexDecode(input) # FromHexError /\ ByteLen(HexDecode(input)) # 32

\* C5: for a seed s of 64 hex characters derive_priv_keys returns
\* spend = sc_reduce32(s) and view = sc_reduce32(Keccak256(spend)), and
\* derive_priv_vk_from_priv_sk of the returned spend key is the returned
\* view key.
C5_OriginalKeys ==
    (keys.called /\ StrLen(keys.input) = 64 /\ HexDecode(keys.input) # FromHexError)
        => /\ keys.outcome = "ok"
           /\ keys.spend = HexEncode(sc_reduce32(HexDecode(keys.input)))
           /\ keys.view = HexEncode(sc_reduce32(Keccak256(HexDecode(keys.spend))))
           /\ (vk.called /\ vk.input = keys.spend)
                  => (vk.outcome = "ok" /\ vk.key = keys.view)

\* Both functions have run on a seed of 64 hex characters and its spend key.
C5_Witness ==
    /\ keys.called /\ keys.outcome = "ok" /\ StrLen(keys.input) = 64
    /\ vk.called /\ vk.input = keys.spend /\ vk.outcome = "ok" /\ vk.key = keys.view

\* C6: the new derive_priv_keys takes the MyMonero path exactly for a seed of
\* 32 hex characters: spend = sc_reduce32(Keccak256(s)),
\* view = sc_reduce32(Keccak256(Keccak256(s))), the second hash over the
\* first digest and not over the spend key; a seed of 64 characters does not
\* take that path, and one of any other length gives an error and no keys.
C6_MyMoneroKeys ==
    (rev = "new" /\ keys.called)
        => LET s == HexDecode(keys.input)
           IN  /\ (StrLen(keys.input) = 32 /\ s # FromHexError)
                     => /\ keys.outcome = "ok"
                        /\ keys.spend = HexEncode(sc_reduce32(Keccak256(s)))
                        /\ keys.view = HexEncode(sc_reduce32(Keccak256(Keccak256(s))))
                        /\ keys.view # HexEncode(sc_reduce32(Keccak256(HexDecode(keys.spend))))
               /\ (StrLen(keys.input) = 64 /\ keys.outcome = "ok")
                     => keys.spend # HexEncode(sc_reduce32(Keccak256(s)))
               /\ StrLen(keys.input) \notin {32, 64}
                     => (keys.outcome = "InvalidHexSeed" /\ keys.spend = <<>> /\ keys.view = <<>>)

\* The new derive_priv_keys has returned the keys of a seed of 32 characters.
C6_Witness ==
    /\ rev = "new" /\ keys.called /\ StrLen(keys.input) = 32 /\ keys.outcome = "ok"
    /\ ByteLen(HexDecode(keys.input)) = 16

\* C7: derive_priv_vk_from_priv_sk and derive_pub_key fail with the
\* malformed-scalar error and return no key whenever the decoded key is not
\* 32 bytes long.  derive_priv_vk_from_priv_sk hashes a key of any length.
C7_MalformedScalar ==
    /\ (vk.called /\ Malformed(vk.input))
          => (vk.outcome = "LengthMismatch" /\ vk.key = <<>>)
    /\ (pub.spend.called /\ Malformed(pub.spend.input))
          => (pub.spend.outcome = "LengthMismatch" /\ pub.spend.key = <<>>)
    /\ (pub.view.called /\ Malformed(pub.view.input))
          => (pub.view.outcome = "LengthMismatch" /\ pub.view.key = <<>>)

\* C8: every address derive_address returns is the base58 encoding of 69
\* bytes, tag || public spend key (32) || public view key (32) || the first
\* four bytes of Keccak256 of the 65 before them, and a call with a key that
\* does not decode to 32 bytes returns no address.  derive_address checks the
\* length of neither key.
C8_AddressLayout ==
    addr.called
        => LET s == HexDecode(addr.spend)
               v == HexDecode(addr.view)
           IN  /\ addr.outcome = "ok"
                     => /\ ByteLen(s) = 32 /\ ByteLen(v) = 32
                        /\ \E tag \in {18, 53} :
                              addr.key = Base58Encode(<< <<tag>> >> \o s \o v
                                             \o First4(Keccak256(<< <<tag>> >> \o s \o v)))
                        /\ ByteLen(addr.key[1][2]) = 69
               /\ (Malformed(addr.spend) \/ Malformed(addr.view))
                     => (addr.outcome # "ok" /\ addr.key = <<>>)

\* C9: derive_address tags the address 0x12 for network 0 and 0x35 for
\* network 1, and for any other network fails with the invalid-network error
\* and no address, whatever the keys.
C9_NetworkTag ==
    addr.called
        => /\ addr.network \notin {0, 1}
                 => (addr.outcome = "InvalidNetwork" /\ addr.key = <<>>)
           /\ addr.network \in {0, 1} => addr.outcome # "InvalidNetwork"
           /\ addr.outcome = "ok"
                 => addr.key[1][2][1] = (IF addr.network = 0 THEN <<18>> ELSE <<53>>)

\* A testnet address has been returned.
C9_Witness ==
    /\ addr.called /\ addr.network = 1 /\ addr.outcome = "ok"
    /\ addr.key[1][2][1] = <<53>>

\* C10: the new generate_seed returns 25 words for "original" and 13 for
\* "mymonero", all of the wordset named language, the last one the data word
\* at get_checksum_index(data words, prefix_len of that wordset).
C10_GeneratedSeed ==
    (/\ rev = "new" /\ origin.kind = "generated" /\ origin.outcome = "ok"
     /\ origin.seed_type \in {"original", "mymonero"})
        => LET k == wordset_named(origin.language)
               data == Pop(mnemonic)
           IN  /\ Len(mnemonic) = (IF origin.seed_type = "original" THEN 25 ELSE 13)
               /\ k # 0
               /\ \A i \in 1..Len(mnemonic) : Contains(k, mnemonic[i])
               /\ ChecksumWord
                     = data[get_checksum_index(data, WORDSETSORIGINAL[k].prefix_len) + 1]

\* A 13-word phrase of more than one word has been generated, its checksum
\* word not the first word.
C10_Witness ==
    /\ rev = "new" /\ origin.kind = "generated" /\ origin.outcome = "ok"
    /\ origin.seed_type = "mymonero" /\ Len(mnemonic) = 13
    /\ ChecksumWord # mnemonic[1]

\* C11: the new generate_seed returns no phrase and fails with the
\* language-not-found error when seed_type is "original" or "mymonero" and
\* no wordset is named language, and with the not-implemented or the
\* invalid-seed-type error for every other seed_type ("polyseed" included),
\* whatever the language.
C11_GenerateErrors ==
    (rev = "new" /\ origin.kind = "generated")
        => /\ (origin.seed_type \in {"original", "mymonero"}
                 /\ wordset_named(origin.language) = 0)
                 => (origin.outcome = "LanguageNotFound" /\ mnemonic = <<>>)
           /\ origin.seed_type \notin {"original", "mymonero"}
                 => (origin.outcome \in {"NotImplemented", "InvalidSeedType"}
                     /\ mnemonic = <<>>)
           /\ origin.seed_type = "polyseed" => origin.outcome = "NotImplemented"

\* generate_seed has refused a language no wordset has.
C11_Witness ==
    /\ rev = "new" /\ origin.kind = "generated" /\ origin.seed_type = "original"
    /\ origin.language = "xx" /\ origin.outcome = "LanguageNotFound"

\* C12: in both revisions every seed derive_hex_seed returns has 32 hex
\* characters, from a phrase of 13 words, or 64, from one of 25; a phrase of
\* any other length, the empty one included, is rejected.  Neither revision
\* looks at the length beyond its remainder by 3, and the new one not even at
\* that: four words give a seed of 8 characters, no word the empty seed.
C12_SeedLength ==
    hexres.called
        => /\ hexres.outcome = "ok"
                 => \/ (Len(mnemonic) = 13 /\ Len(hexres.seed) = 32)
                    \/ (Len(mnemonic) = 25 /\ Len(hexres.seed) = 64)
           /\ Len(mnemonic) \notin {13, 25}
                 => (hexres.outcome # "ok" /\ hexres.seed = <<>>)

\* Every word of the phrase is long enough to be cut to the prefix length of
\* wordset k and starts like a word of it.
Abbreviates(m, k) ==
    \A j \in 1..Len(m) :
        /\ Len(m[j]) >= WORDSETSORIGINAL[k].prefix_len
        /\ find_trunc_index(k, Prefix(m[j], WORDSETSORIGINAL[k].prefix_len)) # -1

\* The phrase with every word replaced by the word of wordset k that starts
\* like it.
FullWords(m, k) ==
    [j \in 1..Len(m) |->
        WORDSETSORIGINAL[k].words[
            find_trunc_index(k, Prefix(m[j], WORDSETSORIGINAL[k].prefix_len)) + 1]]

\* C13: for a wordset with prefix_len = N > 0, the new derive_hex_seed on a
\* phrase whose words share their first N characters with the words of a
\* full-word phrase resolves the same wordset and returns the same seed as
\* for the full-word phrase.  The wordset is resolved by whole words
\* (wordset.words.contains), so a phrase with one abbreviated word resolves
\* no wordset.
C13_PrefixSignificant ==
    (rev = "new" /\ hexres.called /\ Len(mnemonic) > 0)
        => \A k \in 1..NumWordsets :
              (WORDSETSORIGINAL[k].prefix_len > 0 /\ Abbreviates(mnemonic, k))
                 => LET full == derive_hex_seed(FullWords(mnemonic, k))
                    IN  (full.ws = k /\ full.outcome = "ok" /\ Len(full.seed) > 0)
                           => /\ hexres.ws = k
                              /\ hexres.outcome = "ok"
                              /\ hexres.seed = full.seed

\* C14: in both revisions derive_hex_seed resolves the first wordset, in the
\* order of the registry, that holds every word of the phrase, and fails
\* with the wordset-not-found error, and no other, when no wordset holds
\* them all.  The old revision takes the last wordset that holds any word of
\* the phrase.
C14_FirstWordset ==
    (hexres.called /\ Len(mnemonic) > 0)
        => LET fits == {k \in 1..NumWordsets :
                           \A j \in 1..Len(mnemonic) : Contains(k, mnemonic[j])}
           IN  /\ fits = {} => (hexres.outcome = "WordsetNotFound" /\ hexres.seed = <<>>)
               /\ fits # {} => \A k \in fits : hexres.ws <= k /\ hexres.ws \in fits

\* Every data word of a complete triplet has an index in the resolved
\* wordset.
AllResolve ==
    /\ hexres.called /\ hexres.ws # 0
    /\ \A j \in 1..3 * (Len(DataWords) \div 3) :
          word_index(hexres.ws, DataWords, j).err = "ok"

\* C15: for every triplet of indices of data words the packed x satisfies
\* x mod L = w1, so derive_hex_seed never fails its consistency check, in
\* either revision.
C15_Consistency ==
    hexres.called
        => /\ hexres.outcome # "Consistency"
           /\ AllResolve
                 => \A g \in 1..Len(DataWords) \div 3 :
                       Mod32(PackedGroup(g), L)
                          = word_index(hexres.ws, DataWords, 3 * g - 2).idx

\* A phrase of 24 data words has been decoded, one of its triplets packing
\* to 2^32 or more.
C15_Witness ==
    /\ AllResolve /\ Len(DataWords) = 24
    /\ \E g \in 1..8 : PackedGroup(g)[1] >= 65536

\* C18: every 25-word phrase generate_seed returns is accepted by
\* derive_hex_seed of the same revision, resolves the wordset it was drawn
\* from and gives a seed of 64 hex characters that derive_priv_keys accepts.
\* A triplet of draws such as (0, 0, 1625) packs to nine hex digits, which
\* the old swap_endian_4_byte refuses: the old derive_hex_seed panics on a
\* phrase the old generate_seed returned.
C18_GenerateThenDecode ==
    (/\ origin.kind = "generated" /\ origin.outcome = "ok"
     /\ Len(mnemonic) = 25 /\ hexres.called)
        => /\ hexres.outcome = "ok"
           /\ hexres.ws = wordset_named(origin.language)
           /\ StrLen(hexres.seed) = 64
           /\ keys.called => keys.outcome = "ok"

\* C16: for sixteen coefficients in 0..2047 with gf_poly_eval = 0, replacing
\* one coefficient, at any position, by any other value in 0..2047 gives
\* gf_poly_eval # 0.
C16_SingleError ==
    (gf.kind = "poly" /\ gf.step = 2) => gf.check # 0

\* The last coefficient of a codeword has been replaced, and the change
\* detected.
C16_Witness ==
    /\ gf.kind = "poly" /\ gf.step = 2 /\ gf.at = NumCoeff - 1 /\ gf.check # 0

\* C17: for every x in 0..2047, gf_elem_mul2(x) is x times the generator t
\* of GF(2)[t]/(t^11 + t^2 + 1): 2x when x < 1024, (2x - 2048) XOR 5
\* otherwise; the result is in 0..2047.
C17_Mul2 ==
    (gf.kind = "elem" /\ gf.step = 1)
        => /\ gf.y = (IF gf.x < 1024 THEN 2 * gf.x ELSE Xor16(2 * gf.x - 2048, 5))
           /\ gf.y \in 0..2047

\* gf_elem_mul2 has been applied to the last element of the field.
C17_Witness ==
    /\ gf.kind = "elem" /\ gf.step = 1 /\ gf.x = 2047 /\ gf.y = 2043
=============================================================================
